---- MODULE Spec2Model ----
(***************************************************************************)
(* Model of video_captioner.py: the transcript normaliser, the caption     *)
(* layout (create_text_image, create_word_caption_clips), the compositor   *)
(* and the control flow of main with its resource handles.                 *)
(*                                                                         *)
(* Text is a sequence of one-character strings.  Times are integer ticks   *)
(* of 0.1 s, so the fixed fade-in of 0.1 s is one tick.                    *)
(***************************************************************************)
EXTENDS Integers, Sequences, FiniteSets, TLC

VARIABLES
    pc,               \* position of the run
    inputExists,      \* environment: stitched_output.mp4 is on disk
    installed,        \* environment: font files ImageFont.truetype can load
    result,           \* what model.transcribe returned
    word_segments,    \* transcribe_with_word_timestamps' return value
    video_size,       \* (width, height)
    highlight_words,  \* the highlight list handed to the layout (or None)
    caption_clips,    \* create_word_caption_clips' return value
    final_video,      \* the CompositeVideoClip: its layers, bottom first
    text_args,        \* arguments of a direct create_text_image call
    text_img,         \* create_text_image's return value
    modelLoaded,      \* whisper.load_model has returned
    transcribeStarted,\* model.transcribe has been called
    handles,          \* temp_video / video / final_video: unopened, open, closed
    tempAudio,        \* temp-audio.m4a: absent, present, deleted
    outputWritten,    \* captioned_output.mp4 was written completely
    exc,              \* the exception travelling to main's handlers, or None
    printed,          \* the messages main printed, in order
    exitCode,         \* process exit status once the run is over, else None
    calls             \* how many times each stage was entered

vars == <<pc, inputExists, installed, result, word_segments, video_size,
          highlight_words, caption_clips, final_video, text_args, text_img,
          modelLoaded, transcribeStarted, handles, tempAudio, outputWritten,
          exc, printed, exitCode, calls>>

None == "None"

\* an optional list argument: None, or a list
NoneList == [is_none |-> TRUE]
SomeList(l) == [is_none |-> FALSE, list |-> l]

\* ------------------------------------------------------------------ bounds
MaxSegments  == 2   \* segments in a recognizer result
MaxRawWords  == 2   \* word entries in a recognizer result, all segments together
MaxWords     == 2   \* words handed to the layout
MaxTime      == 2   \* largest start / end tick of a word
MaxTextLen   == 2   \* characters of a word text in the highlight check
MaxEntryLen  == 1   \* characters of a highlight-list entry
MaxHighlight == 1   \* entries of a highlight list
MaxHlWords   == 1   \* words handed to the layout in the highlight check

\* ------------------------------------------------------------ str methods
Whitespace == {" ", "\t"}

Lower == <<"a","b","c","d","e","f","g","h","i","j","k","l","m",
           "n","o","p","q","r","s","t","u","v","w","x","y","z">>
Upper == <<"A","B","C","D","E","F","G","H","I","J","K","L","M",
           "N","O","P","Q","R","S","T","U","V","W","X","Y","Z">>

\* str.upper() on one character
UpperChar(c) ==
    IF \E i \in DOMAIN Lower : Lower[i] = c
    THEN Upper[CHOOSE i \in DOMAIN Lower : Lower[i] = c]
    ELSE c

\* str.upper()
StrUpper(s) == [i \in 1..Len(s) |-> UpperChar(s[i])]

RECURSIVE LStrip(_)
LStrip(s) == IF s # <<>> /\ Head(s) \in Whitespace THEN LStrip(Tail(s)) ELSE s

RECURSIVE RStrip(_)
RStrip(s) ==
    IF s # <<>> /\ s[Len(s)] \in Whitespace
    THEN RStrip(SubSeq(s, 1, Len(s) - 1))
    ELSE s

\* str.strip()
Strip(s) == RStrip(LStrip(s))

\* all sequences over S of length at most n
SeqsUpTo(S, n) == UNION {[1..k -> S] : k \in 0..n}

Range(f) == {f[i] : i \in DOMAIN f}

Min(a, b) == IF a < b THEN a ELSE b

\* ------------------------------------------- transcribe_with_word_timestamps
\* variant: the text is stored as the recognizer gave it
WordSegment_unstripped(word) ==
    [text |-> word.word, start |-> word.start, end |-> word.end]

\* the record appended for one recognizer word entry
WordSegment(word) ==
    [text |-> Strip(word.word), start |-> word.start, end |-> word.end]

\* the inner loop: for word in segment["words"]
RECURSIVE AppendWords(_, _)
AppendWords(acc, words) ==
    IF words = <<>> THEN acc
    ELSE AppendWords(Append(acc, WordSegment(Head(words))), Tail(words))

\* the outer loop: for segment in result["segments"]
RECURSIVE AppendSegments(_, _)
AppendSegments(acc, segments) ==
    IF segments = <<>> THEN acc
    ELSE AppendSegments(
             IF "words" \in DOMAIN Head(segments)
             THEN AppendWords(acc, Head(segments).words)
             ELSE acc,
             Tail(segments))

\* word_segments as built from the recognizer result
ExtractWordSegments(res) == AppendSegments(<<>>, res.segments)

\* ---------------------------------------------------------- create_text_image
bold_fonts == <<"impact.ttf", "arial-bold.ttf", "arialbd.ttf", "calibrib.ttf">>
ArialFont == "arial.ttf"
DefaultFont == "load_default"
FontNames == Range(bold_fonts) \cup {ArialFont}

HighlightFill == <<255, 255, 0, 255>>
NormalFill == <<250, 253, 7, 255>>
stroke_width == 4

\* variant: the loop goes on after a font has loaded and keeps the last one
RECURSIVE TryBoldFonts_no_break(_, _, _)
TryBoldFonts_no_break(names, inst, tried) ==
    IF names = <<>> THEN [font |-> None, tried |-> tried]
    ELSE LET rest == TryBoldFonts_no_break(Tail(names), inst, Append(tried, Head(names)))
         IN IF rest.font = None /\ Head(names) \in inst
            THEN [font |-> Head(names), tried |-> rest.tried]
            ELSE rest

\* for font_name in bold_fonts: try truetype, break on success, continue on error.
\* tried records the truetype calls made, in order.
RECURSIVE TryBoldFonts(_, _, _)
TryBoldFonts(names, inst, tried) ==
    IF names = <<>> THEN [font |-> None, tried |-> tried]
    ELSE IF Head(names) \in inst
         THEN [font |-> Head(names), tried |-> Append(tried, Head(names))]
         ELSE TryBoldFonts(Tail(names), inst, Append(tried, Head(names)))

\* the whole font selection: the bold loop, then arial.ttf, then load_default()
LoadFont(inst) ==
    LET b == TryBoldFonts(bold_fonts, inst, <<>>) IN
    IF b.font # None THEN b
    ELSE IF ArialFont \in inst
         THEN [font |-> ArialFont, tried |-> Append(b.tried, ArialFont)]
         ELSE [font |-> DefaultFont, tried |-> Append(b.tried, ArialFont)]

create_text_image(text, font_size, width, height, is_highlight, inst) ==
    LET f == LoadFont(inst) IN
    [text   |-> StrUpper(text),
     font   |-> f.font,
     tried  |-> f.tried,
     size   |-> <<width, height>>,
     font_size |-> font_size,
     stroke |-> stroke_width,
     fill   |-> IF is_highlight THEN HighlightFill ELSE NormalFill]

\* --------------------------------------------------- create_word_caption_clips
words_per_line == 2
FontSizeCap == 125
FadeIn == 1

\* min(int(width // 9.6), 125)
FontSize(width) == Min((width * 10) \div 96, FontSizeCap)

\* highlight_words = [word.upper() for word in highlight_words], None read as []
UpperHighlights(hw) ==
    IF hw.is_none THEN <<>> ELSE [i \in 1..Len(hw.list) |-> StrUpper(hw.list[i])]

\* variant: an entry that occurs inside the word is enough
IsHighlight_substring(text, hl) ==
    LET u == Strip(StrUpper(text)) IN
    \E e \in Range(hl) : \E a \in 0..Len(u) : \E b \in a..Len(u) :
        SubSeq(u, a + 1, b) = e

\* word_data["text"].upper().strip() in highlight_words
IsHighlight(text, hl) == Strip(StrUpper(text)) \in Range(hl)

\* the grouping loop: lines of words_per_line words, the last one possibly shorter
RECURSIVE GroupLines(_, _, _, _)
GroupLines(ts, i, current_line, lines) ==
    IF i > Len(ts) THEN lines
    ELSE LET line == Append(current_line, ts[i]) IN
         IF Len(line) >= words_per_line \/ i = Len(ts)
         THEN GroupLines(ts, i + 1, <<>>, Append(lines, line))
         ELSE GroupLines(ts, i + 1, line, lines)

\* variant: the word's end is taken for the clip's duration
WordClip_duration_is_end(word_data, font_size, width, caption_y, hl, inst) ==
    LET is_highlight == IsHighlight(word_data.text, hl)
        text_img_ == create_text_image(word_data.text, font_size, width,
                                       (font_size * 3) \div 2, is_highlight, inst)
        duration == word_data.end
    IN [kind     |-> "image",
        img      |-> text_img_,
        start    |-> word_data.start,
        duration |-> duration,
        end      |-> word_data.start + duration,
        pos      |-> <<0, caption_y>>,
        fadein   |-> FadeIn]

\* the body of the clip loop for one word
WordClip(word_data, font_size, width, caption_y, hl, inst) ==
    LET is_highlight == IsHighlight(word_data.text, hl)
        text_img_ == create_text_image(word_data.text, font_size, width,
                                       (font_size * 3) \div 2, is_highlight, inst)
        duration == word_data.end - word_data.start
    IN [kind     |-> "image",
        img      |-> text_img_,
        start    |-> word_data.start,
        duration |-> duration,
        end      |-> word_data.start + duration,
        pos      |-> <<0, caption_y>>,
        fadein   |-> FadeIn]

\* variant: only the words of full lines get a clip
create_word_caption_clips_full_lines(transcript_segments, size, hw, inst) ==
    LET width == size[1]
        height == size[2]
        font_size == FontSize(width)
        caption_y == height \div 2
        hl == UpperHighlights(hw)
        n == Len(transcript_segments) - (Len(transcript_segments) % words_per_line)
    IN [i \in 1..n |->
           WordClip(transcript_segments[i], font_size, width, caption_y, hl, inst)]

\* lines is built and never read: the clips come from transcript_segments
create_word_caption_clips(transcript_segments, size, hw, inst) ==
    LET width == size[1]
        height == size[2]
        font_size == FontSize(width)
        caption_y == height \div 2
        hl == UpperHighlights(hw)
        lines == GroupLines(transcript_segments, 1, <<>>, <<>>)
    IN [i \in 1..Len(transcript_segments) |->
           WordClip(transcript_segments[i], font_size, width, caption_y, hl, inst)]

\* ------------------------------------------- compose_final_video_with_captions
VideoTicks == MaxTime + 1

\* VideoFileClip(video_path): plays from 0 for the length of the file
BaseVideo(size) ==
    [kind |-> "video", img |-> size, start |-> 0, duration |-> VideoTicks,
     end |-> VideoTicks, pos |-> <<0, 0>>, fadein |-> 0]

\* variant: the video is appended after the captions
ComposeLayers_video_last(video, clips) == clips \o <<video>>

\* CompositeVideoClip([video] + caption_clips): the layers, bottom first
ComposeLayers(video, clips) == <<video>> \o clips

\* a clip of a composition is drawn at t while start <= t < end
is_playing(clip, t) == t >= clip.start /\ t < clip.end

\* the indices of the layers drawn at t, in drawing order (later drawn on top)
RECURSIVE PlayingFrom(_, _, _)
PlayingFrom(layers, i, t) ==
    IF i > Len(layers) THEN <<>>
    ELSE IF is_playing(layers[i], t)
         THEN <<i>> \o PlayingFrom(layers, i + 1, t)
         ELSE PlayingFrom(layers, i + 1, t)

playing_clips(layers, t) == PlayingFrom(layers, 1, t)

\* ------------------------------------------------------------------ inputs
\* highlight_words of main
MainHighlightWords ==
    << <<"a","m","a","z","i","n","g">>,
       <<"i","n","c","r","e","d","i","b","l","e">>,
       <<"w","o","w">>,
       <<"p","e","r","f","e","c","t">>,
       <<"a","w","e","s","o","m","e">>,
       <<"f","a","n","t","a","s","t","i","c">> >>

VideoSizes == {<<1080, 1920>>, <<1280, 720>>}

\* fonts present on the machine in the runs that do not vary them
UsualFonts == {"arialbd.ttf", "arial.ttf"}

\* recognizer word entries: raw texts with and without surrounding whitespace
RawTexts ==
    { <<"h","i">>, <<" ","h","i">>, <<"h","i","\t">>,
      <<" ","a"," ","b"," ">>, <<" ">> }
RawTimes == {<<0, 5>>, <<7, 7>>}
RawWords ==
    {[word |-> t, start |-> p[1], end |-> p[2]] : t \in RawTexts, p \in RawTimes}

\* a segment with k word entries; with k = 0 also the segment without "words"
SegmentsWith(k) ==
    {[text |-> "segment", words |-> ws] : ws \in [1..k -> RawWords]}
    \cup (IF k = 0 THEN {[text |-> "segment"]} ELSE {})

\* the segment lists of at most nseg segments holding at most budget words
RECURSIVE SegmentLists(_, _)
SegmentLists(nseg, budget) ==
    {<<>>} \cup
    (IF nseg = 0 THEN {}
     ELSE UNION { {<<s>> \o r : s \in SegmentsWith(k),
                                r \in SegmentLists(nseg - 1, budget - k)}
                  : k \in 0..budget })

\* the recognizer results of at most nseg segments holding at most budget words
Results(nseg, budget) == {[segments |-> r] : r \in SegmentLists(nseg, budget)}

\* words handed to the layout with every timing, degenerate ones included
TimingTexts == { <<"h","i">>, <<" ","W","o","w">> }
TimingWords ==
    {[text |-> t, start |-> s, end |-> e] :
        t \in TimingTexts, s \in 0..MaxTime, e \in 0..MaxTime}

\* words and highlight lists for the highlight decision
HlChars == {"a", "A", "!", " "}
EntryChars == {"a", "A"}
HlWords == {[text |-> t, start |-> 0, end |-> 1] : t \in SeqsUpTo(HlChars, MaxTextLen)}
HlLists ==
    {SomeList(l) : l \in SeqsUpTo(SeqsUpTo(EntryChars, MaxEntryLen), MaxHighlight)}
    \cup {NoneList}

\* ------------------------------------------------------------------ state
NoHandles == [h \in {"temp_video", "video", "final_video"} |-> "unopened"]
NoCalls == [s \in {"transcribe", "layout", "compose"} |-> 0]
NoTextArgs == [text |-> <<>>, is_highlight |-> FALSE]

\* the control state of a run that has not started
Idle ==
    /\ modelLoaded = FALSE
    /\ transcribeStarted = FALSE
    /\ handles = NoHandles
    /\ tempAudio = "absent"
    /\ outputWritten = FALSE
    /\ exc = None
    /\ printed = <<>>
    /\ exitCode = None
    /\ calls = NoCalls

control == <<modelLoaded, transcribeStarted, handles, tempAudio, outputWritten,
             exc, printed, exitCode, calls>>
env == <<inputExists, installed>>

\* --------------------------------------- the functions applied to drawn inputs
InitNormalize ==
    /\ pc = "normalize"
    /\ result \in Results(MaxSegments, MaxRawWords)
    /\ inputExists = TRUE /\ installed = UsualFonts
    /\ word_segments = <<>> /\ video_size = None /\ highlight_words = NoneList
    /\ caption_clips = <<>> /\ final_video = None
    /\ text_args = NoTextArgs /\ text_img = None
    /\ Idle

DoNormalize ==
    /\ pc = "normalize"
    /\ word_segments' = ExtractWordSegments(result)
    /\ pc' = "normalized"
    /\ UNCHANGED <<env, result, video_size, highlight_words, caption_clips,
                   final_video, text_args, text_img, control>>

SpecNormalize == InitNormalize /\ [][DoNormalize]_vars

InitLayout ==
    /\ pc = "layout"
    /\ word_segments \in SeqsUpTo(TimingWords, MaxWords)
    /\ video_size \in VideoSizes
    /\ highlight_words = SomeList(MainHighlightWords)
    /\ inputExists = TRUE /\ installed = UsualFonts
    /\ result = None /\ caption_clips = <<>> /\ final_video = None
    /\ text_args = NoTextArgs /\ text_img = None
    /\ Idle

DoLayout ==
    /\ pc = "layout"
    /\ caption_clips' = create_word_caption_clips(word_segments, video_size,
                                                  highlight_words, installed)
    /\ pc' = "compose"
    /\ UNCHANGED <<env, result, word_segments, video_size, highlight_words,
                   final_video, text_args, text_img, control>>

DoCompose ==
    /\ pc = "compose"
    /\ final_video' = [layers |-> ComposeLayers(BaseVideo(video_size), caption_clips)]
    /\ pc' = "composed"
    /\ UNCHANGED <<env, result, word_segments, video_size, highlight_words,
                   caption_clips, text_args, text_img, control>>

NextLayout == DoLayout \/ DoCompose

SpecLayout == InitLayout /\ [][NextLayout]_vars

InitHighlight ==
    /\ pc = "layout"
    /\ word_segments \in SeqsUpTo(HlWords, MaxHlWords)
    /\ highlight_words \in HlLists
    /\ video_size = <<1080, 1920>>
    /\ inputExists = TRUE /\ installed = UsualFonts
    /\ result = None /\ caption_clips = <<>> /\ final_video = None
    /\ text_args = NoTextArgs /\ text_img = None
    /\ Idle

SpecHighlight == InitHighlight /\ [][DoLayout]_vars

InitFont ==
    /\ pc = "text_image"
    /\ installed \in SUBSET FontNames
    /\ text_args \in [text : TimingTexts, is_highlight : BOOLEAN]
    /\ video_size \in VideoSizes
    /\ inputExists = TRUE
    /\ result = None /\ word_segments = <<>> /\ highlight_words = NoneList
    /\ caption_clips = <<>> /\ final_video = None /\ text_img = None
    /\ Idle

DoTextImage ==
    /\ pc = "text_image"
    /\ LET font_size == FontSize(video_size[1]) IN
       text_img' = create_text_image(text_args.text, font_size, video_size[1],
                                     (font_size * 3) \div 2,
                                     text_args.is_highlight, installed)
    /\ pc' = "text_image_done"
    /\ UNCHANGED <<env, result, word_segments, video_size, highlight_words,
                   caption_clips, final_video, text_args, control>>

SpecFont == InitFont /\ [][DoTextImage]_vars

\* ---------------------------------------------------------------------- main
ExcKinds == {"FileNotFoundError", "Exception"}

\* what the recognizer may return in a whole run
MainResults == Results(1, 1)

\* an exception of kind k leaves the try block
Raise(k) == exc' = k /\ pc' = "except"

Enter(stage) == calls' = [calls EXCEPT ![stage] = @ + 1]

Init ==
    /\ pc = "start"
    /\ inputExists \in BOOLEAN
    /\ installed = UsualFonts
    /\ result = None /\ word_segments = <<>> /\ video_size = None
    /\ highlight_words = SomeList(MainHighlightWords)
    /\ caption_clips = <<>> /\ final_video = None
    /\ text_args = NoTextArgs /\ text_img = None
    /\ Idle

\* transcribe_with_word_timestamps, first half: model = whisper.load_model("base")
LoadModel ==
    /\ pc = "start"
    /\ Enter("transcribe")
    /\ \/ modelLoaded' = TRUE /\ pc' = "transcribe" /\ exc' = exc
       \/ modelLoaded' = modelLoaded /\ \E k \in ExcKinds : Raise(k)
    /\ UNCHANGED <<env, result, word_segments, video_size, highlight_words,
                   caption_clips, final_video, text_args, text_img,
                   transcribeStarted, handles, tempAudio, outputWritten,
                   printed, exitCode>>

\* second half: model.transcribe(video_path, ...) and the flattening loops.
\* The recognizer reads the file: without it the call cannot succeed.
Transcribe ==
    /\ pc = "transcribe"
    /\ transcribeStarted' = TRUE
    /\ \/ /\ inputExists
          /\ \E r \in MainResults :
                /\ result' = r
                /\ word_segments' = ExtractWordSegments(r)
          /\ pc' = "open_temp" /\ exc' = exc
       \/ /\ \E k \in ExcKinds : Raise(k)
          /\ UNCHANGED <<result, word_segments>>
    /\ UNCHANGED <<env, video_size, highlight_words, caption_clips, final_video,
                   text_args, text_img, modelLoaded, handles, tempAudio,
                   outputWritten, printed, exitCode, calls>>

\* temp_video = VideoFileClip(input_video)
OpenTempVideo ==
    /\ pc = "open_temp"
    /\ \/ /\ handles' = [handles EXCEPT !["temp_video"] = "open"]
          /\ pc' = "read_size" /\ exc' = exc
       \/ /\ \E k \in ExcKinds : Raise(k)
          /\ handles' = handles
    /\ UNCHANGED <<env, result, word_segments, video_size, highlight_words,
                   caption_clips, final_video, text_args, text_img, modelLoaded,
                   transcribeStarted, tempAudio, outputWritten, printed,
                   exitCode, calls>>

\* video_size = (temp_video.w, temp_video.h); temp_video.close()
ReadSizeAndClose ==
    /\ pc = "read_size"
    /\ \E size \in VideoSizes : video_size' = size
    /\ handles' = [handles EXCEPT !["temp_video"] = "closed"]
    /\ pc' = "layout"
    /\ UNCHANGED <<env, result, word_segments, highlight_words, caption_clips,
                   final_video, text_args, text_img, modelLoaded,
                   transcribeStarted, tempAudio, outputWritten, exc, printed,
                   exitCode, calls>>

\* caption_clips = create_word_caption_clips(word_segments, video_size, highlight_words)
CreateClips ==
    /\ pc = "layout"
    /\ Enter("layout")
    /\ \/ /\ caption_clips' = create_word_caption_clips(
                 word_segments, video_size, highlight_words, installed)
          /\ pc' = "compose_open" /\ exc' = exc
       \/ /\ \E k \in ExcKinds : Raise(k)
          /\ caption_clips' = caption_clips
    /\ UNCHANGED <<env, result, word_segments, video_size, highlight_words,
                   final_video, text_args, text_img, modelLoaded,
                   transcribeStarted, handles, tempAudio, outputWritten,
                   printed, exitCode>>

\* compose_final_video_with_captions: video = VideoFileClip(video_path)
OpenVideo ==
    /\ pc = "compose_open"
    /\ Enter("compose")
    /\ \/ /\ handles' = [handles EXCEPT !["video"] = "open"]
          /\ pc' = "composite" /\ exc' = exc
       \/ /\ \E k \in ExcKinds : Raise(k)
          /\ handles' = handles
    /\ UNCHANGED <<env, result, word_segments, video_size, highlight_words,
                   caption_clips, final_video, text_args, text_img, modelLoaded,
                   transcribeStarted, tempAudio, outputWritten, printed,
                   exitCode>>

\* final_video = CompositeVideoClip([video] + caption_clips)
Composite ==
    /\ pc = "composite"
    /\ \/ /\ final_video' =
                [layers |-> ComposeLayers(BaseVideo(video_size), caption_clips)]
          /\ handles' = [handles EXCEPT !["final_video"] = "open"]
          /\ pc' = "write" /\ exc' = exc
       \/ /\ \E k \in ExcKinds : Raise(k)
          /\ UNCHANGED <<final_video, handles>>
    /\ UNCHANGED <<env, result, word_segments, video_size, highlight_words,
                   caption_clips, text_args, text_img, modelLoaded,
                   transcribeStarted, tempAudio, outputWritten, printed,
                   exitCode, calls>>

\* final_video.write_videofile(..., temp_audiofile='temp-audio.m4a', remove_temp=True):
\* on success the temporary audio file is removed; a failure may come before or
\* after it was created
WriteVideofile ==
    /\ pc = "write"
    /\ \/ /\ tempAudio' = "deleted"
          /\ outputWritten' = TRUE
          /\ pc' = "close" /\ exc' = exc
       \/ /\ \E k \in ExcKinds : Raise(k)
          /\ tempAudio' \in {"absent", "present"}
          /\ outputWritten' = outputWritten
    /\ UNCHANGED <<env, result, word_segments, video_size, highlight_words,
                   caption_clips, final_video, text_args, text_img, modelLoaded,
                   transcribeStarted, handles, printed, exitCode, calls>>

\* video.close(); final_video.close()
CloseClips ==
    /\ pc = "close"
    /\ handles' = [handles EXCEPT !["video"] = "closed", !["final_video"] = "closed"]
    /\ pc' = "success"
    /\ UNCHANGED <<env, result, word_segments, video_size, highlight_words,
                   caption_clips, final_video, text_args, text_img, modelLoaded,
                   transcribeStarted, tempAudio, outputWritten, exc, printed,
                   exitCode, calls>>

\* the status the process ends with once main has returned normally
ExitStatus == 0

\* print("Successfully created captioned video: ..."); main returns
PrintSuccess ==
    /\ pc = "success"
    /\ printed' = Append(printed, "success")
    /\ pc' = "done"
    /\ exitCode' = ExitStatus
    /\ UNCHANGED <<env, result, word_segments, video_size, highlight_words,
                   caption_clips, final_video, text_args, text_img, modelLoaded,
                   transcribeStarted, handles, tempAudio, outputWritten, exc,
                   calls>>

\* except FileNotFoundError: print("Error: Input video ... not found!"); main returns
HandleFileNotFound ==
    /\ pc = "except" /\ exc = "FileNotFoundError"
    /\ printed' = Append(printed, "not_found")
    /\ exc' = None
    /\ pc' = "done"
    /\ exitCode' = ExitStatus
    /\ UNCHANGED <<env, result, word_segments, video_size, highlight_words,
                   caption_clips, final_video, text_args, text_img, modelLoaded,
                   transcribeStarted, handles, tempAudio, outputWritten, calls>>

\* except Exception as e: print(f"Error: {str(e)}"); main returns
HandleException ==
    /\ pc = "except" /\ exc = "Exception"
    /\ printed' = Append(printed, "error")
    /\ exc' = None
    /\ pc' = "done"
    /\ exitCode' = ExitStatus
    /\ UNCHANGED <<env, result, word_segments, video_size, highlight_words,
                   caption_clips, final_video, text_args, text_img, modelLoaded,
                   transcribeStarted, handles, tempAudio, outputWritten, calls>>

Next ==
    \/ LoadModel \/ Transcribe \/ OpenTempVideo \/ ReadSizeAndClose
    \/ CreateClips \/ OpenVideo \/ Composite \/ WriteVideofile \/ CloseClips
    \/ PrintSuccess \/ HandleFileNotFound \/ HandleException

Spec == Init /\ [][Next]_vars

\* ================================================================== properties
LayoutDone == pc \in {"compose", "composed"}

ValidTiming(w) == w.end > w.start

\* how many elements of the sequence ws satisfy ValidTiming
ValidCount(ws) == Cardinality({i \in DOMAIN ws : ValidTiming(ws[i])})

\* C1: a word record with end <= start gets no caption clip: the clips are one
\* per word with end > start, and every clip lasts longer than 0.
C1_DegenerateDropped ==
    LayoutDone =>
        /\ Len(caption_clips) = ValidCount(word_segments)
        /\ \A i \in DOMAIN caption_clips : caption_clips[i].duration > 0

\* C2: when every word has end > start, there are as many clips as words and
\* the i-th clip shows the i-th word (its text, its start, its end), so that an
\* empty word sequence gives no clip.
C2_OneToOne ==
    (LayoutDone /\ \A i \in DOMAIN word_segments : ValidTiming(word_segments[i])) =>
        /\ Len(caption_clips) = Len(word_segments)
        /\ \A i \in DOMAIN word_segments :
              /\ caption_clips[i].img.text = StrUpper(word_segments[i].text)
              /\ caption_clips[i].start = word_segments[i].start
              /\ caption_clips[i].end = word_segments[i].end

C2_Witness ==
    /\ LayoutDone
    /\ Len(word_segments) = 2 /\ Len(caption_clips) = 2
    /\ \A i \in DOMAIN word_segments : ValidTiming(word_segments[i])
    /\ word_segments[1].text # word_segments[2].text
    /\ word_segments[1].start > word_segments[2].start

\* C3: every clip starts at its word's start, lasts exactly end - start, and
\* fades in over 0.1 s (one tick), whatever its place in its line of two and
\* whether or not it is highlighted.
C3_Timing ==
    LayoutDone =>
        \A i \in DOMAIN caption_clips :
            /\ i \in DOMAIN word_segments
            /\ caption_clips[i].start = word_segments[i].start
            /\ caption_clips[i].duration = word_segments[i].end - word_segments[i].start
            /\ caption_clips[i].fadein = 1

C3_Witness ==
    /\ LayoutDone
    /\ Len(caption_clips) = 2
    /\ caption_clips[1].img.fill = NormalFill
    /\ caption_clips[2].img.fill = HighlightFill
    /\ caption_clips[2].start = 1 /\ caption_clips[2].duration = 1
    /\ caption_clips[1].duration # caption_clips[2].duration

\* raw without its leading and trailing whitespace: the middle parts of raw
\* that leave only whitespace on both sides and neither start nor end with it
Trims(raw) ==
    {t \in {SubSeq(raw, p[1] + 1, p[2]) :
               p \in {q \in (0..Len(raw)) \X (0..Len(raw)) :
                        /\ q[1] <= q[2]
                        /\ \A i \in 1..q[1] : raw[i] \in Whitespace
                        /\ \A i \in (q[2] + 1)..Len(raw) : raw[i] \in Whitespace}} :
        t # <<>> => (t[1] \notin Whitespace /\ t[Len(t)] \notin Whitespace)}

IsTrimOf(t, raw) == t \in Trims(raw)

\* a and b are the same string up to the case of their letters
SameIgnoringCase(a, b) ==
    /\ Len(a) = Len(b)
    /\ \A i \in 1..Len(a) : UpperChar(a[i]) = UpperChar(b[i])

\* C8: a word is drawn in the highlight colour exactly when its trimmed text
\* equals, letter case aside, a whole entry of the highlight list; nothing is
\* highlighted when the list is None or empty.
C8_HighlightExact ==
    LayoutDone =>
        /\ Len(caption_clips) = Len(word_segments)
        /\ \A i \in DOMAIN caption_clips :
              (caption_clips[i].img.fill = HighlightFill) <=>
                 /\ ~highlight_words.is_none
                 /\ \E k \in DOMAIN highlight_words.list :
                       \E t \in Trims(word_segments[i].text) :
                          SameIgnoringCase(t, highlight_words.list[k])
        /\ \A i \in DOMAIN caption_clips :
              caption_clips[i].img.fill \in {HighlightFill, NormalFill}

C8_Witness ==
    /\ LayoutDone
    /\ Len(caption_clips) = 1
    /\ word_segments[1].text = <<" ", "A">>
    /\ ~highlight_words.is_none /\ highlight_words.list = << <<"a">> >>
    /\ caption_clips[1].img.fill = HighlightFill

\* the layer indices of the caption clips drawn at t
DrawnCaptions(t) ==
    {k - 1 : k \in Range(playing_clips(final_video.layers, t)) \ {1}}

Increasing(f) == \A i \in DOMAIN f : \A j \in DOMAIN f : i < j => f[i] < f[j]

\* C9: in the composition the base video is the bottom layer, the captions
\* follow in input order, and at every time t the i-th caption is drawn exactly
\* when start <= t < start + duration, the drawn layers keeping that order.
C9_VisibleWindow ==
    pc = "composed" =>
        /\ Len(final_video.layers) = Len(caption_clips) + 1
        /\ final_video.layers[1].kind = "video"
        /\ \A i \in DOMAIN caption_clips : final_video.layers[i + 1] = caption_clips[i]
        /\ \A t \in 0..(MaxTime + 1) :
              /\ Increasing(playing_clips(final_video.layers, t))
              /\ \A i \in DOMAIN caption_clips :
                    (i \in DrawnCaptions(t)) <=>
                       /\ caption_clips[i].start <= t
                       /\ t < caption_clips[i].start + caption_clips[i].duration

C9_Witness ==
    /\ pc = "composed"
    /\ Len(caption_clips) = 2
    /\ playing_clips(final_video.layers, 1) = <<1, 2, 3>>
    /\ playing_clips(final_video.layers, 0) = <<1, 3>>
    /\ playing_clips(final_video.layers, 2) = <<1>>

\* the number of word entries of a segment
WordCount(seg) == IF "words" \in DOMAIN seg THEN Len(seg.words) ELSE 0

\* the number of word entries in the segments before the k-th
RECURSIVE WordsBefore(_, _)
WordsBefore(segs, k) ==
    IF k <= 1 THEN 0 ELSE WordsBefore(segs, k - 1) + WordCount(segs[k - 1])

\* C7: the returned list is the word entries of the segments that have some,
\* in recognizer order, each with trimmed text and unchanged start and end;
\* segments without a word list add nothing, and no segments give the empty list.
C7_Flatten ==
    pc = "normalized" =>
        LET segs == result.segments IN
        /\ Len(word_segments) = WordsBefore(segs, Len(segs) + 1)
        /\ \A k \in DOMAIN segs : \A j \in 1..WordCount(segs[k]) :
              LET w == segs[k].words[j]
                  o == word_segments[WordsBefore(segs, k) + j]
              IN /\ o.start = w.start
                 /\ o.end = w.end
                 /\ IsTrimOf(o.text, w.word)

C7_Witness ==
    /\ pc = "normalized"
    /\ Len(result.segments) = 2
    /\ "words" \notin DOMAIN result.segments[1]
    /\ WordCount(result.segments[2]) = 2
    /\ result.segments[2].words[1].word = <<" ","a"," ","b"," ">>
    /\ result.segments[2].words[2].word = <<"h","i","\t">>
    /\ word_segments[1].text = <<"a"," ","b">>
    /\ word_segments[2].text = <<"h","i">>

\* the candidates in the order in which they are to be tried
FontOrder == <<"impact.ttf", "arial-bold.ttf", "arialbd.ttf", "calibrib.ttf", "arial.ttf">>

\* C10: the font is the first of impact, arial-bold, arialbd, calibrib, arial
\* that loads, nothing is tried after it, and when none loads the built-in
\* default is used: a font is always selected.
C10_FontFallback ==
    pc = "text_image_done" =>
        LET loadable == {i \in DOMAIN FontOrder : FontOrder[i] \in installed} IN
        IF loadable = {}
        THEN /\ text_img.font = DefaultFont
             /\ text_img.tried = FontOrder
        ELSE LET first == CHOOSE i \in loadable : \A j \in loadable : i <= j IN
             /\ text_img.font = FontOrder[first]
             /\ text_img.tried = SubSeq(FontOrder, 1, first)

C10_Witness ==
    /\ pc = "text_image_done"
    /\ installed = {"arialbd.ttf", "calibrib.ttf", "arial.ttf"}
    /\ text_img.font = "arialbd.ttf"
    /\ Len(text_img.tried) = 3

\* C4: when the run is over no handle that was opened is still open and the
\* temporary audio file is not left behind.
C4_AllReleased ==
    pc = "done" =>
        /\ \A h \in DOMAIN handles : handles[h] # "open"
        /\ tempAudio # "present"

\* C5: with the input file missing, nothing is done before the not-found
\* message: no model load, no transcription, no video handle, no output; and
\* the run ends with that message.
C5_NotFoundFirst ==
    (~inputExists) =>
        /\ "not_found" \notin Range(printed) =>
              /\ ~modelLoaded
              /\ ~transcribeStarted
              /\ handles = NoHandles
              /\ ~outputWritten
        /\ pc = "done" => printed = <<"not_found">>

\* C6: a run that failed has printed a message and exits non-zero; the success
\* message and exit status 0 come only after all three stages completed; no
\* stage is entered twice.
C6_FailureExitsNonZero ==
    /\ \A st \in DOMAIN calls : calls[st] <= 1
    /\ pc = "done" =>
          /\ Len(printed) = 1
          /\ printed = <<"success">> <=> exitCode = 0
          /\ printed = <<"success">> =>
                (outputWritten /\ \A st \in DOMAIN calls : calls[st] = 1)
====
